---- MODULE Spec2Model ----
(***************************************************************************)
(* A model of hypothesis/searchstrategy/collections.py: the generator      *)
(* mixer mix_generators and the composite strategies TupleStrategy,        *)
(* ListStrategy, SetStrategy and FixedKeysDictStrategy.                    *)
(*                                                                         *)
(* Python values are represented as follows.  A leaf template is a small   *)
(* natural number.  A tuple (the template of TupleStrategy and of          *)
(* ListStrategy) is a sequence, a frozenset is a set.  A basic value is a  *)
(* record [list |-> b, items |-> s]: the Python list s when b is TRUE, and *)
(* a value that is not a list (it has no items) when b is FALSE.  A call   *)
(* that can raise returns a record [ok |-> TRUE, val |-> v] or             *)
(* [ok |-> FALSE, err |-> e, calls |-> n].                                 *)
(***************************************************************************)
EXTENDS Integers, Sequences, FiniteSets, TLC

VARIABLES
    op,              \* the operation this run exercises
    strategy,        \* the strategy object: [kind, children]
    x,               \* the template passed to simplify / to_basic / reify
    xtype,           \* the Python class of x: "tuple", "list" or "frozenset"
    content,         \* content[g]: everything input generator g will yield
    pos,             \* pos[g]: how many elements generator g has yielded
    raises,          \* raises[g]: generator g ends by raising an error, not StopIteration
    generators,      \* mix_generators.generators   (indices into content)
    next_batch,      \* mix_generators.next_batch
    solo_generator,  \* mix_generators.solo_generator (None or an index)
    signalled,       \* the input generators that have raised StopIteration
    frame,           \* the suspended frame of a ListStrategy/SetStrategy.simplify generator
    out,             \* the candidates the caller has pulled so far, in order
    stopped,         \* StopIteration has reached the caller
    value,           \* the basic value passed to from_basic
    result           \* the outcome of the to_basic / from_basic call

vars == <<op, strategy, x, xtype, content, pos, raises, generators, next_batch,
          solo_generator, signalled, frame, out, stopped, value, result>>

(***************************************************************************)
(* Bounds of the model.                                                    *)
(***************************************************************************)
MaxGens == 3      \* at most this many input generators / tuple positions
MaxLen == 3       \* raw input generators yield at most this many elements
MaxVal == 1       \* leaf templates are 0..MaxVal
MaxList == 3      \* list templates have at most this many elements
MaxSize == 2      \* child strategies have size bounds 1..MaxSize
MaxDraws == 3     \* produce_template draws at most this many element templates

None == 0         \* generators are numbered from 1, so 0 is no generator
\* a basic value that is not a list; also the value before to_basic has run
NotAList == [list |-> FALSE, items |-> <<>>]

\* a Python list as a basic value
PyList(s) == [list |-> TRUE, items |-> s]

\* the annotation of an error that nothing has annotated
NoNote == ""

\* the outcome of a call: a returned value, or a raised error with its
\* annotation; calls counts the child from_basic calls that were started
Ok(v, n) == [ok |-> TRUE, err |-> "", note |-> NoNote, calls |-> n, val |-> v]

Fail(e, n) == [ok |-> FALSE, err |-> e, note |-> NoNote, calls |-> n, val |-> <<>>]

NoResult == Fail("not called", 0)

Values == 0..MaxVal

\* The elements of raw input generator g when it yields n of them.  The
\* mixer never looks at an element; these repeat within a generator and
\* across generators.
RawInput(g, n) == [k \in 1..n |-> (g + k) % 2]

(***************************************************************************)
(* Sequence helpers (Python list operations).                              *)
(***************************************************************************)
Reverse(s) == [k \in 1..Len(s) |-> s[Len(s) + 1 - k]]

Front(s) == SubSeq(s, 1, Len(s) - 1)

Last(s) == s[Len(s)]

\* del y[i], with i counted from 1
DelAt(s, i) == SubSeq(s, 1, i - 1) \o SubSeq(s, i + 1, Len(s))

\* z[i] = v, with i counted from 1
SetAt(s, i, v) == [s EXCEPT ![i] = v]

SeqsUpTo(S, n) == UNION {[1..k -> S] : k \in 0..n}

Min(a, b) == IF a <= b THEN a ELSE b

Least(S) == CHOOSE m \in S : \A k \in S : m <= k

(***************************************************************************)
(* The leaf layer.  A child strategy is one of two leaf strategies over    *)
(* the templates 0..MaxVal.  Its shrink sequence is finite (empty for the  *)
(* template 0) and never holds the template itself; "halve" may yield the  *)
(* same value twice.  Its basic form of the template v is the integer      *)
(* v + LeafShift, and its from_basic rejects every other basic value.      *)
(***************************************************************************)
LeafKinds == {"down", "halve"}

LeafShift == 10

LeafSimplify(kind, v) ==
    CASE kind = "down"  -> [k \in 1..v |-> v - k]
      [] kind = "halve" -> IF v = 0 THEN <<>> ELSE <<0, v - 1>>

LeafToBasic(kind, v) == v + LeafShift

LeafFromBasic(kind, b) ==
    IF b - LeafShift \in Values
    THEN Ok(b - LeafShift, 1)
    ELSE Fail("InvalidData", 1)

(***************************************************************************)
(* mix_generators                                                          *)
(***************************************************************************)
\* a constructor that stores its generators last to first
MixInitReversed(c) ==
    /\ content = c
    /\ pos = [g \in 1..Len(c) |-> 0]
    /\ raises = [g \in 1..Len(c) |-> "never"]
    /\ generators = [g \in 1..Len(c) |-> Len(c) + 1 - g]
    /\ next_batch = <<>>
    /\ solo_generator = None
    /\ signalled = {}

\* mix_generators.__init__: generators = list(generators)
MixInit(c) ==
    /\ content = c
    /\ pos = [g \in 1..Len(c) |-> 0]
    /\ raises = [g \in 1..Len(c) |-> "never"]
    /\ generators = [g \in 1..Len(c) |-> g]
    /\ next_batch = <<>>
    /\ solo_generator = None
    /\ signalled = {}

\* a fast path that looks at self.generators alone
SoloChoiceIgnoringBatch(solo, gens, nb) ==
    IF solo = None /\ Len(gens) = 1 THEN gens[1] ELSE solo

\* the generator that becomes solo_generator on this call, or what it was
SoloChoice(solo, gens, nb) ==
    IF solo = None /\ Len(gens \o nb) = 1 THEN (gens \o nb)[1] ELSE solo

\* a swap that forgets to reverse
SwapBatchNoReverse(nb) == nb

\* self.generators = self.next_batch; self.generators.reverse()
SwapBatch(nb) == Reverse(nb)

\* the error an input generator raises from its body
GenError == Fail("ChildError", 0)

\* next(g) on input generator g whose frame is p[g]: its next element; past
\* the last one, the error its body raises if it has one in store, and
\* StopIteration otherwise (a generator that raised is finished)
GenNext(g, p) ==
    IF p[g] < Len(content[g])
    THEN [stop |-> FALSE, error |-> FALSE, val |-> content[g][p[g] + 1]]
    ELSE [stop |-> raises[g] # "will", error |-> raises[g] = "will"]

\* a fast path that fetches one element ahead of the one it returns
SoloNextLookAhead(solo, gens, nb, p, sig) ==
    LET r == GenNext(solo, p)
    IN  IF r.stop
        THEN [raised |-> TRUE, error |-> FALSE, generators |-> gens, next_batch |-> nb,
              pos |-> p, signalled |-> sig \cup {solo}]
        ELSE IF r.error
        THEN [raised |-> FALSE, error |-> TRUE, gen |-> solo,
              generators |-> gens, next_batch |-> nb,
              pos |-> p, signalled |-> sig]
        ELSE [raised |-> FALSE, error |-> FALSE, gen |-> solo, val |-> r.val,
              generators |-> gens, next_batch |-> nb,
              pos |-> [p EXCEPT ![solo] = Min(@ + 2, Len(content[solo]))],
              signalled |-> sig]

\* return next(self.solo_generator)
SoloNext(solo, gens, nb, p, sig) ==
    LET r == GenNext(solo, p)
    IN  IF r.stop
        THEN [raised |-> TRUE, error |-> FALSE, generators |-> gens, next_batch |-> nb,
              pos |-> p, signalled |-> sig \cup {solo}]
        ELSE IF r.error
        THEN [raised |-> FALSE, error |-> TRUE, gen |-> solo,
              generators |-> gens, next_batch |-> nb,
              pos |-> p, signalled |-> sig]
        ELSE [raised |-> FALSE, error |-> FALSE, gen |-> solo, val |-> r.val,
              generators |-> gens, next_batch |-> nb,
              pos |-> [p EXCEPT ![solo] = @ + 1], signalled |-> sig]

\* a loop without the try/except: the StopIteration of next(g) escapes
QueueLoopNoCatch(gens, nb, p, sig) ==
    IF gens = <<>> /\ nb = <<>>
    THEN [raised |-> TRUE, error |-> FALSE, generators |-> gens, next_batch |-> nb,
          pos |-> p, signalled |-> sig]
    ELSE LET gs == IF gens = <<>> THEN SwapBatch(nb) ELSE gens
             b  == IF gens = <<>> THEN <<>> ELSE nb
             g  == Last(gs)
             r  == GenNext(g, p)
         IN  IF r.stop
             THEN [raised |-> TRUE, error |-> FALSE,
                   generators |-> Front(gs), next_batch |-> b,
                   pos |-> p, signalled |-> sig \cup {g}]
             ELSE IF r.error
             THEN [raised |-> FALSE, error |-> TRUE, gen |-> g,
                   generators |-> Front(gs), next_batch |-> b,
                   pos |-> p, signalled |-> sig]
             ELSE [raised |-> FALSE, error |-> FALSE, gen |-> g, val |-> r.val,
                   generators |-> Front(gs), next_batch |-> Append(b, g),
                   pos |-> [p EXCEPT ![g] = @ + 1], signalled |-> sig]

\* the while loop of __next__, run to its return or to raise StopIteration();
\* except StopIteration catches nothing else, so any other error of next(g)
\* leaves the loop with g popped and not put back
RECURSIVE QueueLoop(_, _, _, _)
QueueLoop(gens, nb, p, sig) ==
    IF gens = <<>> /\ nb = <<>>
    THEN [raised |-> TRUE, error |-> FALSE, generators |-> gens, next_batch |-> nb,
          pos |-> p, signalled |-> sig]
    ELSE LET gs == IF gens = <<>> THEN SwapBatch(nb) ELSE gens
             b  == IF gens = <<>> THEN <<>> ELSE nb
             g  == Last(gs)
             r  == GenNext(g, p)
         IN  IF r.stop
             THEN QueueLoop(Front(gs), b, p, sig \cup {g})
             ELSE IF r.error
             THEN [raised |-> FALSE, error |-> TRUE, gen |-> g,
                   generators |-> Front(gs), next_batch |-> b,
                   pos |-> p, signalled |-> sig]
             ELSE [raised |-> FALSE, error |-> FALSE, gen |-> g, val |-> r.val,
                   generators |-> Front(gs), next_batch |-> Append(b, g),
                   pos |-> [p EXCEPT ![g] = @ + 1], signalled |-> sig]

\* mix_generators.__next__, pulled by the caller until it raises
\* StopIteration; result holds the error, if any, that a pull ended with
MixNext ==
    /\ op \in {"mix", "tuple_simplify"}
    /\ ~stopped
    /\ LET solo == SoloChoice(solo_generator, generators, next_batch)
           r == IF solo # None
                THEN SoloNext(solo, generators, next_batch, pos, signalled)
                ELSE QueueLoop(generators, next_batch, pos, signalled)
       IN  /\ solo_generator' = solo
           /\ generators' = r.generators
           /\ next_batch' = r.next_batch
           /\ pos' = r.pos
           /\ signalled' = r.signalled
           /\ stopped' = r.raised
           /\ out' = IF r.raised \/ r.error THEN out
                     ELSE Append(out, [tag |-> "mix", i |-> r.gen, val |-> r.val])
           /\ raises' = IF r.error THEN [raises EXCEPT ![r.gen] = "did"] ELSE raises
           /\ result' = IF r.error THEN GenError ELSE result
    /\ UNCHANGED <<op, strategy, x, xtype, content, frame, value>>

(***************************************************************************)
(* TupleStrategy                                                           *)
(***************************************************************************)
\* a closure that sees the last value of the loop variable: every generator
\* writes to the last position
simplify_single_late_binding(st, t, i) ==
    LET ss == LeafSimplify(st.children[i], t[i])
    IN  [k \in 1..Len(ss) |-> SetAt(t, Len(t), ss[k])]

\* simplify_single(i): positions are counted from 1 here; newtuple builds a
\* tuple or a named record of the same fields, a sequence either way
simplify_single(st, t, i) ==
    LET ss == LeafSimplify(st.children[i], t[i])
    IN  [k \in 1..Len(ss) |-> SetAt(t, i, ss[k])]

\* TupleStrategy.simplify: one generator per position, handed to mix_generators
TupleSimplifyGenerators(st, t) ==
    [i \in 1..Len(t) |-> simplify_single(st, t, i)]

(***************************************************************************)
(* ListStrategy and SetStrategy.  The descriptor is empty or names one     *)
(* child, which one_of_strategies returns as the element strategy.         *)
(***************************************************************************)
element_strategy(st) == st.children[1]

\* y = list(x); del y[i]; tuple(y)
ListDeleteOne(t, i) == DelAt(t, i)

\* z = list(x); z[i] = s; tuple(z)
ListReplace(t, i, s) == SetAt(t, i, s)

\* z = list(x); del z[i]; del z[i]; tuple(z)
ListDeletePair(t, i) == DelAt(DelAt(t, i), i)

\* a generator that finishes all deletions before the first shrink, and all
\* shrinks before the pairs
ListContinueInPhases(n, after, i) ==
    CASE after = "delete" ->
           IF i < n THEN [pc |-> "loop", i |-> i + 1, j |-> 0]
                    ELSE [pc |-> "child", i |-> 1, j |-> 0]
      [] after = "shrinks" ->
           IF i < n THEN [pc |-> "child", i |-> i + 1, j |-> 0]
                    ELSE [pc |-> "pairs", i |-> 1, j |-> 0]

\* Where the body of "for i in hrange(0, len(x))" goes on, in a template of
\* n elements: after the deletion of position i to the shrinks of position
\* i, and after the last of these to position i + 1.
ListContinue(n, after, i) ==
    CASE after = "delete"  -> [pc |-> "child", i |-> i, j |-> 0]
      [] after = "shrinks" -> [pc |-> "loop", i |-> i + 1, j |-> 0]

\* a guard that lets a singleton yield its one deletion too
ListMayDeleteSingleton(t) == Len(t) >= 1

\* if len(x) > 1: the deletion of one element is a candidate only then
ListMayDelete(t) == Len(t) > 1

\* Resume the generator ListStrategy.simplify(t) at the frame f and run it to
\* its next yield or to its end.  f.pc is the place the frame is suspended
\* at, f.i the loop index (from 1), f.j the number of elements already taken
\* from element_strategy.simplify(t[i]).
RECURSIVE ListSimplifyResume(_, _, _)
ListSimplifyResume(st, t, f) ==
    CASE f.pc = "begin" ->
           IF t = <<>>
           THEN [stop |-> TRUE, frame |-> [pc |-> "done", i |-> 0, j |-> 0]]
           ELSE [stop |-> FALSE, tag |-> "empty", i |-> 0, val |-> <<>>,
                 frame |-> [pc |-> "loop", i |-> 1, j |-> 0]]
      [] f.pc = "loop" ->
           IF f.i > Len(t)
           THEN ListSimplifyResume(st, t, [pc |-> "pairs", i |-> 1, j |-> 0])
           ELSE IF ListMayDelete(t)
           THEN [stop |-> FALSE, tag |-> "delete", i |-> f.i,
                 val |-> ListDeleteOne(t, f.i),
                 frame |-> ListContinue(Len(t), "delete", f.i)]
           ELSE ListSimplifyResume(st, t, ListContinue(Len(t), "delete", f.i))
      [] f.pc = "child" ->
           LET ss == LeafSimplify(element_strategy(st), t[f.i])
           IN  IF f.j < Len(ss)
               THEN [stop |-> FALSE, tag |-> "shrink", i |-> f.i,
                     val |-> ListReplace(t, f.i, ss[f.j + 1]),
                     frame |-> [pc |-> "child", i |-> f.i, j |-> f.j + 1]]
               ELSE ListSimplifyResume(st, t, ListContinue(Len(t), "shrinks", f.i))
      [] f.pc = "pairs" ->
           IF f.i < Len(t)
           THEN [stop |-> FALSE, tag |-> "pair", i |-> f.i,
                 val |-> ListDeletePair(t, f.i),
                 frame |-> [pc |-> "pairs", i |-> f.i + 1, j |-> 0]]
           ELSE [stop |-> TRUE, frame |-> [pc |-> "done", i |-> 0, j |-> 0]]
      [] f.pc = "done" -> [stop |-> TRUE, frame |-> f]

\* assert isinstance(x, tuple) at the top of ListStrategy.simplify
ListSimplifyAssert(xt) == xt = "tuple"

\* next() on the generator ListStrategy.simplify(x); a failed assert ends the
\* generator with AssertionError on the first next()
ListSimplifyNext ==
    /\ op = "list_simplify"
    /\ ~stopped
    /\ result = NoResult
    /\ IF ListSimplifyAssert(xtype)
       THEN LET r == ListSimplifyResume(strategy, x, frame)
            IN  /\ frame' = r.frame
                /\ stopped' = r.stop
                /\ out' = IF r.stop THEN out
                          ELSE Append(out, [tag |-> r.tag, i |-> r.i, val |-> r.val])
                /\ result' = result
       ELSE /\ frame' = [frame EXCEPT !.pc = "done"]
            /\ result' = Fail("AssertionError", 0)
            /\ UNCHANGED <<stopped, out>>
    /\ UNCHANGED <<op, strategy, x, xtype, content, pos, raises, generators, next_batch,
                   solo_generator, signalled, value>>

\* y = set(x); y.remove(v); frozenset(y)
SetRemove(t, v) == t \ {v}

\* a substitution that copies x instead of y
SetSubstituteIntoOriginal(t, v, w) == t \cup {w}

\* z = set(y); z.add(w); frozenset(z), where y is t without v
SetSubstitute(t, v, w) == SetRemove(t, v) \cup {w}

\* a generator that finishes all removals before the first substitution
SetContinueInPhases(n, after, i) ==
    CASE after = "remove" ->
           IF i < n THEN [pc |-> "loop", i |-> i + 1] ELSE [pc |-> "child", i |-> 1]
      [] after = "substitutions" ->
           IF i < n THEN [pc |-> "child", i |-> i + 1] ELSE [pc |-> "loop", i |-> n + 1]

\* Where the body of "for v in x" goes on, in a set of n elements: after the
\* removal of the i-th element to its substitutions, and after the last of
\* these to the next element.
SetContinue(n, after, i) ==
    CASE after = "remove"        -> [pc |-> "child", i |-> i]
      [] after = "substitutions" -> [pc |-> "loop", i |-> i + 1]

\* Resume the generator SetStrategy.simplify(t).  f.order is the order in
\* which "for v in x" visits the elements of the frozenset.
RECURSIVE SetSimplifyResume(_, _, _)
SetSimplifyResume(st, t, f) ==
    CASE f.pc = "begin" ->
           IF t = {}
           THEN [stop |-> TRUE, frame |-> [f EXCEPT !.pc = "done"]]
           ELSE [stop |-> FALSE, tag |-> "empty", i |-> 0, val |-> {},
                 frame |-> [f EXCEPT !.pc = "loop", !.i = 1, !.j = 0]]
      [] f.pc = "loop" ->
           IF f.i > Len(f.order)
           THEN [stop |-> TRUE, frame |-> [f EXCEPT !.pc = "done"]]
           ELSE [stop |-> FALSE, tag |-> "delete", i |-> f.i,
                 val |-> SetRemove(t, f.order[f.i]),
                 frame |-> LET c == SetContinue(Len(f.order), "remove", f.i)
                           IN  [f EXCEPT !.pc = c.pc, !.i = c.i, !.j = 0]]
      [] f.pc = "child" ->
           LET v == f.order[f.i]
               ws == LeafSimplify(element_strategy(st), v)
           IN  IF f.j < Len(ws)
               THEN [stop |-> FALSE, tag |-> "shrink", i |-> f.i,
                     val |-> SetSubstitute(t, v, ws[f.j + 1]),
                     frame |-> [f EXCEPT !.j = f.j + 1]]
               ELSE LET c == SetContinue(Len(f.order), "substitutions", f.i)
                    IN  SetSimplifyResume(st, t,
                            [f EXCEPT !.pc = c.pc, !.i = c.i, !.j = 0])
      [] f.pc = "done" -> [stop |-> TRUE, frame |-> f]

\* assert isinstance(x, frozenset) at the top of SetStrategy.simplify
SetSimplifyAssert(xt) == xt = "frozenset"

\* next() on the generator SetStrategy.simplify(x); a failed assert ends the
\* generator with AssertionError on the first next()
SetSimplifyNext ==
    /\ op = "set_simplify"
    /\ ~stopped
    /\ result = NoResult
    /\ IF SetSimplifyAssert(xtype)
       THEN LET r == SetSimplifyResume(strategy, x, frame)
            IN  /\ frame' = r.frame
                /\ stopped' = r.stop
                /\ out' = IF r.stop THEN out
                          ELSE Append(out, [tag |-> r.tag, i |-> r.i, val |-> r.val])
                /\ result' = result
       ELSE /\ frame' = [frame EXCEPT !.pc = "done"]
            /\ result' = Fail("AssertionError", 0)
            /\ UNCHANGED <<stopped, out>>
    /\ UNCHANGED <<op, strategy, x, xtype, content, pos, raises, generators, next_batch,
                   solo_generator, signalled, value>>

\* what one pull hands to the caller: a candidate, or StopIteration
Pulled(r) == IF r.stop THEN [stop |-> TRUE, val |-> {}]
             ELSE [stop |-> FALSE, val |-> r.val]

\* two runs of SetStrategy.simplify(x) on the same strategy and equal
\* templates, pulled side by side: out records what each pull gave in run a
\* and in run b
SetSimplifyTwiceNext ==
    /\ op = "set_simplify_twice"
    /\ ~stopped
    /\ SetSimplifyAssert(xtype)
    /\ LET ra == SetSimplifyResume(strategy, x, frame.a)
           rb == SetSimplifyResume(strategy, x, frame.b)
       IN  /\ frame' = [a |-> ra.frame, b |-> rb.frame]
           /\ stopped' = (ra.stop /\ rb.stop)
           /\ out' = IF ra.stop /\ rb.stop THEN out
                     ELSE Append(out, [a |-> Pulled(ra), b |-> Pulled(rb)])
    /\ UNCHANGED <<op, strategy, x, xtype, content, pos, raises, generators, next_batch,
                   solo_generator, signalled, value, result>>

\* the orders in which a frozenset can be iterated
Orders(S) == {o \in [1..Cardinality(S) -> S] : \A a, b \in DOMAIN o : a # b => o[a] # o[b]}

(***************************************************************************)
(* Basic forms                                                             *)
(***************************************************************************)
\* check_length(l, value): InvalidData unless value has exactly l entries
check_length(l, v) ==
    IF v.list /\ Len(v.items) = l THEN "ok" ELSE "InvalidData"

\* check_data_type(list, value): InvalidData unless value is a list
check_data_type(v) == IF v.list THEN "ok" ELSE "InvalidData"

\* an evaluation that catches the error of a child and raises it again with
\* the descriptor of that child as its annotation
ChildrenFromBasicAnnotating(kinds, items) ==
    LET n == Min(Len(kinds), Len(items))
        bad == {k \in 1..n : ~LeafFromBasic(kinds[k], items[k]).ok}
    IN  IF bad = {}
        THEN Ok([k \in 1..n |-> LeafFromBasic(kinds[k], items[k]).val], n)
        ELSE [LeafFromBasic(kinds[Least(bad)], items[Least(bad)])
                 EXCEPT !.calls = Least(bad), !.note = kinds[Least(bad)]]

\* f.from_basic(v) for each pair of zip(kinds, items), from left to right;
\* the first child that raises ends the evaluation, and its error is the
\* error of the whole: nothing around the calls catches it
ChildrenFromBasic(kinds, items) ==
    LET n == Min(Len(kinds), Len(items))
        bad == {k \in 1..n : ~LeafFromBasic(kinds[k], items[k]).ok}
    IN  IF bad = {}
        THEN Ok([k \in 1..n |-> LeafFromBasic(kinds[k], items[k]).val], n)
        ELSE [LeafFromBasic(kinds[Least(bad)], items[Least(bad)])
                 EXCEPT !.calls = Least(bad)]

\* a to_basic whose range stops one short
TupleToBasicDropsLast(st, t) ==
    PyList([k \in 1..(Min(Len(st.children), Len(t)) - 1) |->
               LeafToBasic(st.children[k], t[k])])

\* TupleStrategy.to_basic
TupleToBasic(st, t) ==
    PyList([k \in 1..Min(Len(st.children), Len(t)) |->
               LeafToBasic(st.children[k], t[k])])

\* a from_basic without the check_length call: zip pairs what it can
TupleFromBasicNoCheck(st, v) == ChildrenFromBasic(st.children, v.items)

\* TupleStrategy.from_basic
TupleFromBasic(st, v) ==
    IF check_length(Len(st.children), v) # "ok"
    THEN Fail(check_length(Len(st.children), v), 0)
    ELSE ChildrenFromBasic(st.children, v.items)

\* ListStrategy.to_basic
ListToBasic(st, t) ==
    IF st.children = <<>>
    THEN PyList(<<>>)
    ELSE PyList([k \in 1..Len(t) |-> LeafToBasic(element_strategy(st), t[k])])

\* ListStrategy.from_basic
ListFromBasic(st, v) ==
    IF check_data_type(v) # "ok" THEN Fail(check_data_type(v), 0)
    ELSE IF st.children = <<>> THEN Ok(<<>>, 0)
    ELSE ChildrenFromBasic([k \in 1..Len(v.items) |-> element_strategy(st)], v.items)

\* SetStrategy.to_basic, with o the order in which the frozenset is iterated
SetToBasic(st, t, o) ==
    IF st.children = <<>>
    THEN PyList(<<>>)
    ELSE PyList([k \in 1..Len(o) |-> LeafToBasic(element_strategy(st), o[k])])

\* SetStrategy.from_basic
SetFromBasic(st, v) ==
    IF st.children = <<>> THEN Ok({}, 0)
    ELSE IF check_data_type(v) # "ok" THEN Fail(check_data_type(v), 0)
    ELSE LET r == ChildrenFromBasic(
                      [k \in 1..Len(v.items) |-> element_strategy(st)], v.items)
         IN  IF r.ok THEN Ok({r.val[k] : k \in 1..Len(r.val)}, r.calls) ELSE r

\* check_type(typ, value): InvalidTemplate unless value is an instance of typ
check_type(typ, xt) == IF xt = typ THEN "ok" ELSE "InvalidTemplate"

\* the reify of a leaf strategy: the value it builds from template v
LeafReify(kind, v) == [by |-> kind, of |-> v]

\* TupleStrategy.reify: zip pairs the children with the template's entries
\* and stops at the shorter of the two
TupleReify(st, t) ==
    Ok([k \in 1..Min(Len(st.children), Len(t)) |-> LeafReify(st.children[k], t[k])], 0)

\* ListStrategy.reify
ListReify(st, t) ==
    IF t = <<>> THEN Ok(<<>>, 0)
    ELSE Ok([k \in 1..Len(t) |-> LeafReify(element_strategy(st), t[k])], 0)

\* SetStrategy.reify
SetReify(st, t) ==
    IF st.children = <<>> THEN Ok({}, 0)
    ELSE Ok({LeafReify(element_strategy(st), v) : v \in t}, 0)

\* strategy.to_basic(t) as the caller sees it: TupleStrategy.to_basic takes
\* any sequence, ListStrategy.to_basic and SetStrategy.to_basic begin with
\* check_type
TupleToBasicCall(st, t, xt) == Ok(TupleToBasic(st, t), 0)

ListToBasicCall(st, t, xt) ==
    IF check_type("tuple", xt) # "ok" THEN Fail(check_type("tuple", xt), 0)
    ELSE Ok(ListToBasic(st, t), 0)

SetToBasicCall(st, t, xt, o) ==
    IF check_type("frozenset", xt) # "ok" THEN Fail(check_type("frozenset", xt), 0)
    ELSE Ok(SetToBasic(st, t, o), 0)

(***************************************************************************)
(* FixedKeysDictStrategy.  A dict is the sequence of its items <<key,     *)
(* value>> in the order it iterates them, which is the order they were     *)
(* supplied in.  The keys are numbered in the order of their nice_string.  *)
(***************************************************************************)
\* strategy_dict.keys()
DictKeys(d) == [i \in 1..Len(d) |-> d[i][1]]

\* strategy_dict[k]
DictGet(d, k) == d[CHOOSE i \in 1..Len(d) : d[i][1] = k][2]

\* keys taken in the order the dict iterates them
UnsortedKeys(ks) == ks

\* tuple(sorted(strategy_dict.keys(), key=nice_string))
RECURSIVE SortedKeys(_)
SortedKeys(ks) ==
    IF ks = <<>> THEN <<>>
    ELSE LET m == Least({ks[i] : i \in 1..Len(ks)})
         IN  <<m>> \o SortedKeys(SelectSeq(ks, LAMBDA k : k # m))

\* FixedKeysDictStrategy.__init__: the descriptor keeps the items of
\* strategy_dict, the inner TupleStrategy lists the children by sorted key
FixedKeysDictStrategy(strategy_dict) ==
    LET keys == SortedKeys(DictKeys(strategy_dict))
    IN  [kind |-> "dict", keys |-> keys,
         descriptor |-> strategy_dict,
         children |-> [k \in 1..Len(keys) |-> DictGet(strategy_dict, keys[k])]]

\* FixedKeysDictStrategy.pack: dict(zip(self.keys, value)), as a function
\* from the keys to the entries of value
pack(st, v) ==
    [k \in {st.keys[i] : i \in 1..Min(Len(st.keys), Len(v))} |->
        v[CHOOSE i \in 1..Len(st.keys) : st.keys[i] = k]]

\* the TupleStrategy a FixedKeysDictStrategy maps
mapped_strategy(st) == [kind |-> "tuple", children |-> st.children]

\* MappedSearchStrategy.to_basic and from_basic hand over to the inner strategy
DictToBasic(st, t) == TupleToBasic(mapped_strategy(st), t)

DictFromBasic(st, v) == TupleFromBasic(mapped_strategy(st), v)

\* MappedSearchStrategy.reify: pack(mapped_strategy.reify(value))
DictReify(st, t) == Ok(pack(st, TupleReify(mapped_strategy(st), t).val), 0)

DictToBasicCall(st, t, xt) == Ok(DictToBasic(st, t), 0)

\* strategy.to_basic(t), dispatched on the class of the strategy
to_basic(st, t, o) ==
    CASE st.kind = "tuple" -> TupleToBasic(st, t)
      [] st.kind = "dict"  -> DictToBasic(st, t)
      [] st.kind = "list"  -> ListToBasic(st, t)
      [] st.kind = "set"   -> SetToBasic(st, t, o)

\* strategy.from_basic(v), dispatched on the class of the strategy
from_basic(st, v) ==
    CASE st.kind = "tuple" -> TupleFromBasic(st, v)
      [] st.kind = "dict"  -> DictFromBasic(st, v)
      [] st.kind = "list"  -> ListFromBasic(st, v)
      [] st.kind = "set"   -> SetFromBasic(st, v)

\* value = strategy.to_basic(x)
ToBasic ==
    /\ op = "round_trip"
    /\ value = NotAList
    /\ \E o \in (IF strategy.kind = "set" THEN Orders(x) ELSE {<<>>}) :
          value' = to_basic(strategy, x, o)
    /\ UNCHANGED <<op, strategy, x, xtype, content, pos, raises, generators, next_batch,
                   solo_generator, signalled, frame, out, stopped, result>>

\* result = strategy.from_basic(value)
FromBasic ==
    /\ \/ op = "round_trip" /\ value # NotAList
       \/ op = "from_basic"
    /\ result = NoResult
    /\ result' = from_basic(strategy, value)
    /\ UNCHANGED <<op, strategy, x, xtype, content, pos, raises, generators, next_batch,
                   solo_generator, signalled, frame, out, stopped, value>>

\* result = strategy.reify(x), x being any template the caller passes
Reify ==
    /\ op = "reify"
    /\ result = NoResult
    /\ result' = CASE strategy.kind = "tuple" -> TupleReify(strategy, x)
                    [] strategy.kind = "dict"  -> DictReify(strategy, x)
                    [] strategy.kind = "list"  -> ListReify(strategy, x)
                    [] strategy.kind = "set"   -> SetReify(strategy, x)
    /\ UNCHANGED <<op, strategy, x, xtype, content, pos, raises, generators, next_batch,
                   solo_generator, signalled, frame, out, stopped, value>>

\* result = strategy.to_basic(x), x being any template the caller passes
ToBasicCall ==
    /\ op = "to_basic"
    /\ result = NoResult
    /\ \E o \in (IF strategy.kind = "set" THEN Orders(x) ELSE {<<>>}) :
          result' = CASE strategy.kind = "tuple" -> TupleToBasicCall(strategy, x, xtype)
                      [] strategy.kind = "dict"  -> DictToBasicCall(strategy, x, xtype)
                      [] strategy.kind = "list"  -> ListToBasicCall(strategy, x, xtype)
                      [] strategy.kind = "set"   -> SetToBasicCall(strategy, x, xtype, o)
    /\ UNCHANGED <<op, strategy, x, xtype, content, pos, raises, generators, next_batch,
                   solo_generator, signalled, frame, out, stopped, value>>

(***************************************************************************)
(* Construction: the size bounds a composite computes from its children.   *)
(***************************************************************************)
SizeBounds(lo, hi) == [size_lower_bound |-> lo, size_upper_bound |-> hi]

\* the loop of TupleStrategy.__init__ over element_strategies, from the left
RECURSIVE TupleSizeLoop(_, _)
TupleSizeLoop(strategies, acc) ==
    IF strategies = <<>> THEN acc
    ELSE TupleSizeLoop(Tail(strategies),
             SizeBounds(acc.size_lower_bound * Head(strategies).size_lower_bound,
                        acc.size_upper_bound * Head(strategies).size_upper_bound))

\* a loop that starts its two products at 0
TupleSizeBoundsFromZero(strategies) == TupleSizeLoop(strategies, SizeBounds(0, 0))

\* TupleStrategy.__init__: both bounds start at 1
TupleSizeBounds(strategies) == TupleSizeLoop(strategies, SizeBounds(1, 1))

\* ListStrategy.__init__ over the empty descriptor
ListSizeBounds(strategies) == SizeBounds(1, 1)

\* SetStrategy.__init__; one_of_strategies of a single strategy is that strategy
SetSizeBounds(strategies) ==
    IF strategies = <<>> THEN SizeBounds(1, 1)
    ELSE SizeBounds(2 ^ strategies[1].size_lower_bound,
                    2 ^ strategies[1].size_upper_bound)

\* result = the size bounds of a strategy built over the given children
Construct ==
    /\ op = "construct"
    /\ result = NoResult
    /\ result' = CASE strategy.kind = "tuple" -> Ok(TupleSizeBounds(strategy.children), 0)
                    [] strategy.kind = "list"  -> Ok(ListSizeBounds(strategy.children), 0)
                    [] strategy.kind = "set"   -> Ok(SetSizeBounds(strategy.children), 0)
    /\ UNCHANGED <<op, strategy, x, xtype, content, pos, raises, generators, next_batch,
                   solo_generator, signalled, frame, out, stopped, value>>

(***************************************************************************)
(* SetStrategy.produce_template.  frame.result is the set being built,     *)
(* frame.coins the number of times the stopping coin was consulted, and    *)
(* out lists the element templates drawn.                                  *)
(***************************************************************************)
\* a loop whose body draws first and consults the coin afterwards
SetProduceBeginWithDraw(st) ==
    IF st.children = <<>> THEN [pc |-> "return", result |-> {}, coins |-> 0]
    ELSE [pc |-> "draw", result |-> {}, coins |-> 0]

\* the descriptor test and result = set(): over a descriptor the loop is
\* entered at the coin
SetProduceBegin(st) ==
    IF st.children = <<>> THEN [pc |-> "return", result |-> {}, coins |-> 0]
    ELSE [pc |-> "coin", result |-> {}, coins |-> 0]

\* if dist.biased_coin(random, pv.stopping_chance): break
SetProduceCoin ==
    /\ op = "set_produce"
    /\ frame.pc = "coin"
    /\ \E heads \in BOOLEAN :
          /\ ~heads => Len(out) < MaxDraws
          /\ frame' = [frame EXCEPT !.pc = IF heads THEN "return" ELSE "draw",
                                    !.coins = @ + 1]
    /\ UNCHANGED <<op, strategy, x, xtype, content, pos, raises, generators, next_batch,
                   solo_generator, signalled, out, stopped, value, result>>

\* result.add(self.element_strategy.produce_template(...))
SetProduceDraw ==
    /\ op = "set_produce"
    /\ frame.pc = "draw"
    /\ \E v \in Values :
          /\ frame' = [frame EXCEPT !.pc = "coin", !.result = @ \cup {v}]
          /\ out' = Append(out, [tag |-> "draw", i |-> Len(out) + 1, val |-> v])
    /\ UNCHANGED <<op, strategy, x, xtype, content, pos, raises, generators, next_batch,
                   solo_generator, signalled, stopped, value, result>>

\* return frozenset(result)
SetProduceReturn ==
    /\ op = "set_produce"
    /\ frame.pc = "return"
    /\ frame' = [frame EXCEPT !.pc = "done"]
    /\ result' = Ok(frame.result, 0)
    /\ UNCHANGED <<op, strategy, x, xtype, content, pos, raises, generators, next_batch,
                   solo_generator, signalled, out, stopped, value>>

NoFrame == [pc |-> "none"]

Idle ==
    /\ out = <<>>
    /\ stopped = FALSE
    /\ value = NotAList
    /\ result = NoResult

\* a mixer over arbitrary finite input generators
InitMix ==
    /\ op = "mix"
    /\ strategy = [kind |-> "none", children |-> <<>>]
    /\ x = <<>> /\ xtype = "tuple"
    /\ \E K \in 0..MaxGens : \E lens \in [1..K -> 0..MaxLen] :
          MixInit([g \in 1..K |-> RawInput(g, lens[g])])
    /\ frame = NoFrame
    /\ Idle

\* a mixer one of whose inputs raises an error once its elements are used up
InitMixRaising ==
    /\ op = "mix"
    /\ strategy = [kind |-> "none", children |-> <<>>]
    /\ x = <<>> /\ xtype = "tuple"
    /\ \E K \in 1..MaxGens : \E lens \in [1..K -> 0..MaxLen], e \in 1..K :
          /\ content = [g \in 1..K |-> RawInput(g, lens[g])]
          /\ pos = [g \in 1..K |-> 0]
          /\ raises = [g \in 1..K |-> IF g = e THEN "will" ELSE "never"]
          /\ generators = [g \in 1..K |-> g]
    /\ next_batch = <<>>
    /\ solo_generator = None
    /\ signalled = {}
    /\ frame = NoFrame
    /\ Idle

\* TupleStrategy(children).simplify(t)
InitTupleSimplify ==
    /\ op = "tuple_simplify"
    /\ \E n \in 0..MaxGens :
         \E ch \in [1..n -> LeafKinds], t \in [1..n -> Values] :
            /\ strategy = [kind |-> "tuple", children |-> ch]
            /\ x = t /\ xtype = "tuple"
            /\ MixInit(TupleSimplifyGenerators(strategy, t))
    /\ frame = NoFrame
    /\ Idle

\* the descriptors of a ListStrategy or SetStrategy: no child, or one child
Descriptors == {<<>>} \cup {<<k>> : k \in LeafKinds}

\* ListStrategy(children).simplify(t); over the empty descriptor the only
\* template is the empty tuple
InitListSimplify ==
    /\ op = "list_simplify"
    /\ \E ch \in Descriptors :
         \E t \in (IF ch = <<>> THEN {<<>>} ELSE SeqsUpTo(Values, MaxList)) :
            /\ strategy = [kind |-> "list", children |-> ch]
            /\ x = t /\ xtype = "tuple"
    /\ frame = [pc |-> "begin", i |-> 0, j |-> 0]
    /\ MixInit(<<>>)
    /\ Idle

\* SetStrategy(children).simplify(t), iterating t in any order
InitSetSimplify ==
    /\ op = "set_simplify"
    /\ \E ch \in Descriptors :
         \E t \in (IF ch = <<>> THEN {{}} ELSE SUBSET Values) :
            /\ strategy = [kind |-> "set", children |-> ch]
            /\ x = t /\ xtype = "frozenset"
            /\ \E o \in Orders(t) :
                  frame = [pc |-> "begin", order |-> o, i |-> 0, j |-> 0]
    /\ MixInit(<<>>)
    /\ Idle

\* two runs of SetStrategy(children).simplify on equal frozensets, each
\* iterating its frozenset in an order of its own
InitSetSimplifyTwice ==
    /\ op = "set_simplify_twice"
    /\ \E ch \in Descriptors :
         \E t \in (IF ch = <<>> THEN {{}} ELSE SUBSET Values) :
            /\ strategy = [kind |-> "set", children |-> ch]
            /\ x = t /\ xtype = "frozenset"
            /\ \E oa \in Orders(t), ob \in Orders(t) :
                  frame = [a |-> [pc |-> "begin", order |-> oa, i |-> 0, j |-> 0],
                           b |-> [pc |-> "begin", order |-> ob, i |-> 0, j |-> 0]]
    /\ MixInit(<<>>)
    /\ Idle

\* the dicts of child strategies over keys 1..MaxGens, supplied in any order
\* or in ascending order of their keys only
StrategyDicts(kinds, any_order) ==
    UNION {UNION {{[i \in 1..Len(o) |-> <<o[i], f[o[i]]>>] : f \in [K -> kinds]}
                     : o \in IF any_order THEN Orders(K) ELSE {SortedKeys(CHOOSE q \in Orders(K) : TRUE)}}
              : K \in SUBSET (1..MaxGens)}

\* the leaf kinds differ in their shrink sequences only: one stands for all
\* of them where basic forms are converted
BasicKinds == {"down"}

\* the strategies whose basic forms are converted, each with the templates
\* its produce_template can return
BasicStrategies ==
    UNION {{[kind |-> "tuple", children |-> ch] : ch \in [1..n -> BasicKinds]}
              : n \in 0..MaxGens}
    \cup {[kind |-> k, children |-> ch] : k \in {"list", "set"},
              ch \in {<<>>} \cup {<<b>> : b \in BasicKinds}}
    \cup {FixedKeysDictStrategy(d) : d \in StrategyDicts(BasicKinds, FALSE)}

\* the Python class of the templates a strategy produces
TemplateType(st) == IF st.kind = "set" THEN "frozenset" ELSE "tuple"

Templates(st) ==
    CASE st.kind \in {"tuple", "dict"} -> [1..Len(st.children) -> Values]
      [] st.kind = "list" ->
           IF st.children = <<>> THEN {<<>>} ELSE SeqsUpTo(Values, MaxList)
      [] st.kind = "set" ->
           IF st.children = <<>> THEN {{}} ELSE SUBSET Values

\* the basic values handed to from_basic: lists of leaf basic forms, valid
\* or not, of up to one entry more than the widest tuple, and a value that is
\* not a list
BasicItems == (LeafShift - 1)..(LeafShift + MaxVal)

BasicValues == {NotAList} \cup {PyList(s) : s \in SeqsUpTo(BasicItems, MaxGens + 1)}

\* strategy.from_basic(strategy.to_basic(t)) for a template t of the strategy
InitRoundTrip ==
    /\ op = "round_trip"
    /\ \E st \in BasicStrategies : \E t \in Templates(st) : strategy = st /\ x = t
    /\ xtype = TemplateType(strategy)
    /\ frame = NoFrame
    /\ MixInit(<<>>)
    /\ Idle

\* strategy.from_basic(v) for an arbitrary basic value v
InitFromBasic ==
    /\ op = "from_basic"
    /\ strategy \in BasicStrategies
    /\ x = <<>> /\ xtype = "tuple"
    /\ frame = NoFrame
    /\ MixInit(<<>>)
    /\ out = <<>> /\ stopped = FALSE /\ result = NoResult
    /\ value \in BasicValues

\* the classes of the values a caller may pass where a template is expected:
\* a sequence as a tuple or as a list, a collection as a frozenset or as a set
TemplateTypes(st) == IF st.kind = "set" THEN {"frozenset", "set"} ELSE {"tuple", "list"}

\* the values a caller may pass as the template of a strategy: for a
\* TupleStrategy a sequence of any length, for the others a well-formed
\* content in a container of either class
CallTemplates(st) ==
    IF st.kind = "tuple" THEN SeqsUpTo(Values, Len(st.children) + 1)
    ELSE Templates(st)

CallStrategies == {st \in BasicStrategies : st.kind \in {"tuple", "list", "set"}}

\* strategy.reify(t) or strategy.to_basic(t) for any value t a caller passes
InitTemplateCall ==
    /\ op \in {"reify", "to_basic"}
    /\ \E st \in CallStrategies : \E t \in CallTemplates(st) :
          /\ strategy = st /\ x = t
          /\ xtype \in TemplateTypes(st)
    /\ frame = NoFrame
    /\ MixInit(<<>>)
    /\ Idle

\* FixedKeysDictStrategy(strategy_dict).reify(t) or .to_basic(t) for the
\* templates t of the strategy, strategy_dict being supplied in any order
InitDictCall ==
    /\ op \in {"reify", "to_basic"}
    /\ \E d \in StrategyDicts(LeafKinds, TRUE) :
          /\ strategy = FixedKeysDictStrategy(d)
          /\ x \in Templates(strategy)
    /\ xtype = "tuple"
    /\ frame = NoFrame
    /\ MixInit(<<>>)
    /\ Idle

\* ListStrategy.simplify and SetStrategy.simplify on a container of the
\* other class
InitSimplifyWrongType ==
    /\ \/ /\ op = "list_simplify"
          /\ \E ch \in Descriptors :
               \E t \in (IF ch = <<>> THEN {<<>>} ELSE SeqsUpTo(Values, MaxList)) :
                  /\ strategy = [kind |-> "list", children |-> ch]
                  /\ x = t /\ xtype = "list"
          /\ frame = [pc |-> "begin", i |-> 0, j |-> 0]
       \/ /\ op = "set_simplify"
          /\ \E ch \in Descriptors :
               \E t \in (IF ch = <<>> THEN {{}} ELSE SUBSET Values) :
                  /\ strategy = [kind |-> "set", children |-> ch]
                  /\ x = t /\ xtype = "set"
                  /\ \E o \in Orders(t) :
                        frame = [pc |-> "begin", order |-> o, i |-> 0, j |-> 0]
    /\ MixInit(<<>>)
    /\ Idle

\* the size bounds a child strategy can have: 1 <= lower <= upper
ChildSizes ==
    {b \in {SizeBounds(lo, hi) : lo \in 1..MaxSize, hi \in 1..MaxSize} :
        b.size_lower_bound <= b.size_upper_bound}

\* TupleStrategy(children), SetStrategy(children) over no child or one, and
\* ListStrategy([])
InitConstruct ==
    /\ op = "construct"
    /\ \/ \E n \in 0..MaxGens : \E ch \in [1..n -> ChildSizes] :
             strategy = [kind |-> "tuple", children |-> ch]
       \/ \E ch \in {<<>>} \cup {<<b>> : b \in ChildSizes} :
             strategy = [kind |-> "set", children |-> ch]
       \/ strategy = [kind |-> "list", children |-> <<>>]
    /\ x = <<>> /\ xtype = "tuple"
    /\ frame = NoFrame
    /\ MixInit(<<>>)
    /\ Idle

\* SetStrategy(children).produce_template(random, pv)
InitSetProduce ==
    /\ op = "set_produce"
    /\ \E ch \in Descriptors : strategy = [kind |-> "set", children |-> ch]
    /\ x = {} /\ xtype = "frozenset"
    /\ frame = SetProduceBegin(strategy)
    /\ MixInit(<<>>)
    /\ Idle

Init ==
    \/ InitMix
    \/ InitTupleSimplify
    \/ InitListSimplify
    \/ InitSetSimplify
    \/ InitRoundTrip
    \/ InitFromBasic
    \/ InitTemplateCall
    \/ InitSimplifyWrongType
    \/ InitSetSimplifyTwice
    \/ InitConstruct
    \/ InitSetProduce
    \/ InitMixRaising
    \/ InitDictCall

Next ==
    \/ MixNext
    \/ ListSimplifyNext
    \/ SetSimplifyNext
    \/ ToBasic
    \/ FromBasic
    \/ Reify
    \/ ToBasicCall
    \/ SetSimplifyTwiceNext
    \/ Construct
    \/ SetProduceCoin
    \/ SetProduceDraw
    \/ SetProduceReturn

Spec == Init /\ [][Next]_vars

\* A caller that drains a mixer or a shrink sequence: it keeps pulling until
\* StopIteration reaches it.
InitDrain ==
    \/ InitMix
    \/ InitTupleSimplify
    \/ InitListSimplify
    \/ InitSetSimplify

NextDrain ==
    \/ MixNext
    \/ ListSimplifyNext
    \/ SetSimplifyNext

FairSpec == InitDrain /\ [][NextDrain]_vars /\ WF_vars(NextDrain)

(***************************************************************************)
(* Claims about mix_generators                                             *)
(***************************************************************************)
Mixing == op \in {"mix", "tuple_simplify"}

Inputs == 1..Len(content)

Positions == UNION {{<<g, k>> : k \in 1..Len(content[g])} : g \in Inputs}

MixElements ==
    {content[gk[1]][gk[2]] : gk \in Positions} \cup {out[k].val : k \in 1..Len(out)}

InputCount(v) == Cardinality({gk \in Positions : content[gk[1]][gk[2]] = v})

OutCount(v) == Cardinality({k \in 1..Len(out) : out[k].val = v})

\* how many of the first n emitted elements came from input g
Taken(g, n) == Cardinality({k \in 1..n : out[k].i = g})

\* C1: once the mixer has been drained (StopIteration reached the caller),
\* the elements it emitted are exactly the multiset union of its inputs:
\* every value was emitted as many times as the inputs hold it.
C1_MultisetUnion ==
    (Mixing /\ stopped) => \A v \in MixElements : OutCount(v) = InputCount(v)

\* a drained mixer over three inputs, one of them empty and the other two
\* starting with the same element, that went through the queue and ended on
\* the solo fast path
C1_Witness ==
    /\ op = "mix" /\ stopped
    /\ Len(content) = 3
    /\ \E g \in Inputs : content[g] = <<>>
    /\ \E g, h \in Inputs :
          /\ g # h /\ content[g] # <<>> /\ content[h] # <<>>
          /\ content[g][1] = content[h][1]
    /\ solo_generator # None
    /\ Len(out) = 3

\* C2: between two consecutive elements of one input g, every other input
\* that still had an element left when the first of them was emitted
\* contributes exactly one element, and every other input none; and for K
\* inputs of the same length N the drained output has length K*N and every
\* prefix of length k*K holds exactly k elements of each input.
C2_Fair ==
    Mixing =>
      /\ \A a, b \in 1..Len(out) :
           ( /\ a < b
             /\ out[a].i = out[b].i
             /\ \A k \in (a + 1)..(b - 1) : out[k].i # out[a].i )
           => \A h \in Inputs \ {out[a].i} :
                Taken(h, b - 1) - Taken(h, a) =
                    IF Taken(h, a) < Len(content[h]) THEN 1 ELSE 0
      /\ (\A g, h \in Inputs : Len(content[g]) = Len(content[h])) =>
           /\ stopped => \A g \in Inputs : Len(out) = Len(content) * Len(content[g])
           /\ \A k \in 0..Len(out) :
                k * Len(content) <= Len(out)
                => \A g \in Inputs : Taken(g, k * Len(content)) = k

\* three inputs of two elements each, drained: six elements in two rounds,
\* the second in the order of the first
C2_Witness ==
    /\ op = "mix" /\ stopped
    /\ Len(content) = 3
    /\ \A g \in Inputs : Len(content[g]) = 2
    /\ Len(out) = 6
    /\ \A k \in 1..3 : out[k].i = out[k + 3].i

(***************************************************************************)
(* Claims about the shrink sequences                                       *)
(***************************************************************************)
Shrinking == op \in {"tuple_simplify", "list_simplify", "set_simplify"}

\* the values a leaf shrink sequence holds
Range(s) == {s[k] : k \in 1..Len(s)}

\* the four phases the candidates of a list are said to come in
Phase(e) ==
    CASE e.tag = "empty" -> 0 [] e.tag = "delete" -> 1
      [] e.tag = "shrink" -> 2 [] e.tag = "pair" -> 3

ListRank(e) ==
    CASE e.tag = "empty"  -> 0
      [] e.tag = "delete" -> 2 * e.i - 1
      [] e.tag = "shrink" -> 2 * e.i
      [] e.tag = "pair"   -> 2 * Len(x) + e.i

C4_RemovalsFirst ==
    op = "set_simplify" =>
        \A a, b \in 1..Len(out) : a < b => Phase(out[a]) <= Phase(out[b])

\* C4 amended: SetStrategy.simplify emits the empty set first, then for each
\* element v of t in iteration order the removal t \ {v} followed by the
\* substitutions (t \ {v}) \cup {s} for s in child.simplify(v) in the
\* child's order; a drained sequence holds all of them.
C4_ElementByElement ==
    op = "set_simplify" =>
      /\ \A a, b \in 1..Len(out) :
           a < b => /\ ListRank(out[a]) <= ListRank(out[b])
                    /\ ListRank(out[a]) = ListRank(out[b]) => out[a].tag = "shrink"
      /\ \A k \in 1..Len(out) :
           LET e == out[k]
               v == frame.order[e.i]
               ws == LeafSimplify(element_strategy(strategy), v)
               n == Cardinality({a \in 1..k : out[a].tag = "shrink" /\ out[a].i = e.i})
           IN  CASE e.tag = "empty"  -> k = 1 /\ e.val = {}
                 [] e.tag = "delete" -> e.val = x \ {v}
                 [] e.tag = "shrink" -> e.val = (x \ {v}) \cup {ws[n]}
      /\ (stopped /\ x # {}) =>
           \A i \in 1..Cardinality(x) :
             /\ \E k \in 1..Len(out) : out[k].tag = "delete" /\ out[k].i = i
             /\ Cardinality({k \in 1..Len(out) : out[k].tag = "shrink" /\ out[k].i = i})
                  = Len(LeafSimplify(element_strategy(strategy), frame.order[i]))

\* a drained set of two elements: a substitution for the first element
\* visited was emitted before the removal of the second
C4_Witness ==
    /\ op = "set_simplify" /\ stopped /\ Cardinality(x) >= 2
    /\ \E a, b \in 1..Len(out) :
          a < b /\ out[a].tag = "shrink" /\ out[a].i = 1
                /\ out[b].tag = "delete" /\ out[b].i = 2

\* C5: no candidate of TupleStrategy, ListStrategy or SetStrategy.simplify
\* equals the template that is being simplified.
C5_NeverYieldsInput ==
    Shrinking => \A k \in 1..Len(out) : out[k].val # x

\* a set whose substitution candidate replaced an element by one the set
\* already holds, so that the candidate is one element smaller
C5_Witness ==
    /\ op = "set_simplify" /\ stopped
    /\ \E k \in 1..Len(out) :
          out[k].tag = "shrink" /\ Cardinality(out[k].val) < Cardinality(x)

AllExhausted == \A g \in Inputs : pos[g] = Len(content[g])

\* C6: a caller that keeps pulling reaches StopIteration after finitely many
\* pulls, for the mixer and for the tuple, list and set shrink sequences; and
\* a pull on the mixer raises StopIteration exactly when every input
\* generator is exhausted at that pull.
C6_Terminates ==
    /\ (Mixing \/ Shrinking) ~> stopped
    /\ []((Mixing /\ stopped) => AllExhausted)
    /\ [][MixNext => (stopped' <=> AllExhausted)]_vars

\* a tuple shrink drained through the queue with inputs of different lengths
C6_Witness ==
    /\ op = "tuple_simplify" /\ stopped
    /\ Len(x) = 3 /\ Len(out) >= 4
    /\ \E g, h \in Inputs : Len(content[g]) < Len(content[h])

(***************************************************************************)
(* Claims about basic forms                                                *)
(***************************************************************************)
\* from_basic has been called and its outcome recorded
Called == result # NoResult

EmptyDescriptor == strategy.kind \in {"list", "set"} /\ strategy.children = <<>>

\* C8: for TupleStrategy, ListStrategy (also over the empty descriptor),
\* SetStrategy and FixedKeysDictStrategy, from_basic(to_basic(t)) returns t
\* for every template t that produce_template can return.
C8_RoundTrip ==
    (op = "round_trip" /\ Called) => (result.ok /\ result.val = x)

\* a set of two elements went to a list that is not in ascending order and
\* came back
C8_Witness ==
    /\ op = "round_trip" /\ Called
    /\ strategy.kind = "set" /\ Cardinality(x) = 2
    /\ value.items[1] > value.items[2]

\* C9: over an empty descriptor, from_basic of ListStrategy and of
\* SetStrategy fails with InvalidData on every basic value other than the
\* empty list.
C9_EmptyDescriptorRejects ==
    (op = "from_basic" /\ Called /\ EmptyDescriptor /\ value # PyList(<<>>))
        => (~result.ok /\ result.err = "InvalidData")

\* C10: from_basic of TupleStrategy and of FixedKeysDictStrategy fails with
\* InvalidData on every list whose length is not the number of children,
\* and has then called no child from_basic.
C10_LengthChecked ==
    ( /\ op = "from_basic" /\ Called
      /\ strategy.kind \in {"tuple", "dict"}
      /\ value.list /\ Len(value.items) # Len(strategy.children) )
        => (~result.ok /\ result.err = "InvalidData" /\ result.calls = 0)

\* a dict strategy of two keys was given a list of valid entries that is one
\* entry short or one entry long
C10_Witness ==
    /\ op = "from_basic" /\ Called
    /\ strategy.kind = "dict" /\ Len(strategy.children) = 2
    /\ value.list /\ Len(value.items) \in {1, 3}
    /\ \A k \in 1..Len(value.items) : value.items[k] = LeafShift + 1

\* a value that meets the template invariants of the strategy: the right
\* container class and, for a TupleStrategy, one entry per child
ValidTemplate ==
    /\ xtype = TemplateType(strategy)
    /\ strategy.kind = "tuple" => Len(x) = Len(strategy.children)

\* C11: reify, to_basic and simplify report InvalidTemplate on a value that
\* violates the template invariants of the strategy: TupleStrategy.reify and
\* TupleStrategy.to_basic on a template of the wrong length return nothing,
\* and ListStrategy.simplify and SetStrategy.simplify on the wrong container
\* class end with InvalidTemplate on the first pull
C11_InvalidTemplateReported ==
    /\ (op \in {"reify", "to_basic"} /\ strategy.kind = "tuple"
            /\ ~ValidTemplate /\ result # NoResult)
         => result = Fail("InvalidTemplate", 0)
    /\ (op \in {"list_simplify", "set_simplify"}
            /\ ~ValidTemplate /\ (result # NoResult \/ stopped \/ out # <<>>))
         => result = Fail("InvalidTemplate", 0)

\* C12: shrink order is deterministic: two runs of simplify on equal templates
\* with the same strategy emit the same candidate sequence; for SetStrategy
\* the traversal is fixed by the value of the template and not by the
\* iteration order of the set, so pull by pull the two runs give the same
\* candidate or both stop
C12_Deterministic ==
    op = "set_simplify_twice" =>
        \A k \in 1..Len(out) : out[k].a = out[k].b

Built == op = "construct" /\ result # NoResult

\* C13: over children with 1 <= size_lower_bound <= size_upper_bound, the
\* bounds of a TupleStrategy (the products of its children's bounds, 1/1 for
\* no child), of a SetStrategy (2^lower and 2^upper of its child, 1/1 for the
\* empty descriptor) and of the empty-descriptor ListStrategy (1/1) satisfy
\* 1 <= size_lower_bound <= size_upper_bound
C13_SizeBoundsWellFormed ==
    Built =>
        /\ 1 <= result.val.size_lower_bound
        /\ result.val.size_lower_bound <= result.val.size_upper_bound
        /\ strategy.children = <<>> => result.val = SizeBounds(1, 1)
        /\ (strategy.kind = "set" /\ strategy.children # <<>>) =>
              result.val = SizeBounds(2 ^ strategy.children[1].size_lower_bound,
                                      2 ^ strategy.children[1].size_upper_bound)

\* a tuple built over two children whose lower and upper bounds differ
C13_Witness ==
    /\ Built
    /\ strategy.kind = "tuple" /\ Len(strategy.children) = 2
    /\ result.val.size_lower_bound = 2
    /\ result.val.size_upper_bound = 4

\* SetStrategy.produce_template over a non-empty descriptor
Producing == op = "set_produce" /\ strategy.children # <<>>

Produced == Producing /\ result # NoResult

Drawn == {out[k].val : k \in 1..Len(out)}

\* C14 as claimed: the stopping coin is consulted only after an element draw,
\* so at least one element template is drawn before produce_template can
\* terminate and the produced frozen set is never empty; the result holds
\* exactly the distinct templates drawn
C14_DrawBeforeCoin ==
    /\ Producing => frame.coins <= Len(out)
    /\ Produced => Len(out) >= 1 /\ result.val # {}
    /\ Produced => result.val = Drawn

\* C14 amended: the stopping coin is consulted before every element draw, the
\* first included, so each draw follows a coin that said go on and the
\* produced frozen set can be empty; the result holds exactly the distinct
\* templates drawn
C14_CoinBeforeDraw ==
    /\ Producing =>
          frame.coins = Len(out) + (IF frame.pc = "coin" THEN 0 ELSE 1)
    /\ Produced => result.val = Drawn

\* the first coin stops the loop: nothing was drawn and the result is empty
C14_Witness ==
    /\ Produced
    /\ out = <<>>
    /\ result.val = {}
    /\ frame.coins = 1

\* the candidates of a singleton template (v,): the empty tuple, then (s,)
\* for each s of the child's shrink sequence of v
SingletonCandidates(st, v) ==
    <<<<>>>> \o [k \in 1..Len(LeafSimplify(element_strategy(st), v)) |->
                   <<LeafSimplify(element_strategy(st), v)[k]>>]

\* C15: ListStrategy.simplify yields nothing for the empty template; for a
\* non-empty template its first candidate is the empty tuple; for a singleton
\* (v,) the sequence is exactly the empty tuple followed by (s,) for each s
\* in child.simplify(v), with no deletion candidate
C15_EmptyFirst ==
    (op = "list_simplify" /\ ListSimplifyAssert(xtype)) =>
        /\ x = <<>> => out = <<>>
        /\ out # <<>> => out[1].tag = "empty" /\ out[1].val = <<>>
        /\ Len(x) = 1 =>
              /\ Len(out) <= Len(SingletonCandidates(strategy, x[1]))
              /\ \A k \in 1..Len(out) :
                    /\ out[k].val = SingletonCandidates(strategy, x[1])[k]
                    /\ out[k].tag \notin {"delete", "pair"}
              /\ stopped => Len(out) = Len(SingletonCandidates(strategy, x[1]))

\* a singleton whose element has shrinks was drained
C15_Witness ==
    /\ op = "list_simplify" /\ ListSimplifyAssert(xtype)
    /\ Len(x) = 1 /\ stopped
    /\ Len(out) >= 2 /\ out[2].tag = "shrink"

\* input g is finished and the mixer has seen it finish: its StopIteration
\* was caught, or its error went through to the caller
Ended(g) == g \in signalled \/ raises[g] = "did"

OnSoloPath == Mixing /\ solo_generator # None

\* on the fast path the one generator left is the solo generator and every
\* other input has given all its elements and was dropped
SoloAlone ==
    OnSoloPath =>
        /\ generators \o next_batch = <<solo_generator>>
        /\ \A g \in Inputs \ {solo_generator} :
              Ended(g) /\ pos[g] = Len(content[g])

\* a pull on the fast path keeps solo_generator and emits nothing but the
\* next element of that generator
SoloPull ==
    OnSoloPath =>
        /\ solo_generator' = solo_generator
        /\ out' # out =>
              out' = Append(out, [tag |-> "mix", i |-> solo_generator,
                        val |-> content[solo_generator][pos[solo_generator] + 1]])
        /\ \A g \in Inputs \ {solo_generator} : pos'[g] = pos[g]

\* C16: the solo fast path engages only when exactly one input generator is
\* left and every other input has signalled exhaustion and been dropped;
\* from then on solo_generator never changes and every emitted element is
\* the next element of that generator, so no element of any input is lost
C16_SoloFastPath == []SoloAlone /\ [][SoloPull]_vars

\* three inputs, two of them dropped by the queue, the third drained on the
\* fast path after it had given elements on the queue path
C16_Witness ==
    /\ op = "mix" /\ stopped /\ OnSoloPath
    /\ Len(content) = 3
    /\ \A g \in Inputs : raises[g] = "never"
    /\ Len(content[solo_generator]) = 3
    /\ \E g \in Inputs \ {solo_generator} : Len(content[g]) = 1

DictCalled == strategy.kind = "dict" /\ op \in {"reify", "to_basic"} /\ result # NoResult

\* the key set of the descriptor
KeySet == {strategy.descriptor[i][1] : i \in 1..Len(strategy.descriptor)}

\* the index of key k when the keys are sorted
KeyIndex(k) == Cardinality({j \in KeySet : j <= k})

\* C17: FixedKeysDictStrategy orders its inner tuple by the sorted keys,
\* whatever order the keys were supplied in: reify returns a mapping whose
\* key set is the key set of the descriptor and whose value at key k is the
\* reified child template at the index of k among the sorted keys, and the
\* to_basic list has one entry per key in that same order
C17_SortedKeyOrder ==
    DictCalled =>
        /\ \A i, j \in 1..Len(strategy.keys) :
              i < j => strategy.keys[i] < strategy.keys[j]
        /\ op = "reify" =>
              /\ result.ok
              /\ DOMAIN result.val = KeySet
              /\ \A k \in KeySet :
                    result.val[k] =
                        LeafReify(DictGet(strategy.descriptor, k), x[KeyIndex(k)])
        /\ op = "to_basic" =>
              /\ result.ok /\ result.val.list
              /\ Len(result.val.items) = Cardinality(KeySet)
              /\ \A k \in KeySet :
                    result.val.items[KeyIndex(k)] =
                        LeafToBasic(DictGet(strategy.descriptor, k), x[KeyIndex(k)])

\* a template reified over keys that were supplied in descending order, with
\* different children and different entries
C17_Witness ==
    /\ DictCalled /\ op = "reify"
    /\ Len(strategy.descriptor) = 2
    /\ strategy.descriptor[1][1] > strategy.descriptor[2][1]
    /\ strategy.descriptor[1][2] # strategy.descriptor[2][2]
    /\ x[1] # x[2]

\* from_basic got as far as calling the from_basic of its children
ReachedChildren ==
    /\ op = "from_basic" /\ result # NoResult
    /\ value.list
    /\ IF strategy.kind \in {"tuple", "dict"}
       THEN Len(value.items) = Len(strategy.children)
       ELSE strategy.children # <<>>

\* the child strategy that converts item k
ChildOf(k) ==
    IF strategy.kind \in {"tuple", "dict"} THEN strategy.children[k]
    ELSE element_strategy(strategy)

FailingItems ==
    {k \in 1..Len(value.items) : ~LeafFromBasic(ChildOf(k), value.items[k]).ok}

\* a child from_basic raised inside the from_basic of the composite
ChildRaised == ReachedChildren /\ FailingItems # {}

\* the error of the first child that raised
FirstError == LeafFromBasic(ChildOf(Least(FailingItems)), value.items[Least(FailingItems)])

\* an input of the mixer raised an error when it was pulled
InputRaised == Mixing /\ \E g \in Inputs : raises[g] = "did"

\* an error of an input is never taken for its exhaustion: no input with an
\* error in store is signalled, and none is left when the mixer is drained
NotSwallowed ==
    Mixing =>
        \A g \in Inputs : raises[g] = "will" => g \notin signalled /\ ~stopped

C19_OrderKept ==
    Mixing =>
        /\ \A k \in 1..Len(out) :
              /\ Taken(out[k].i, k) <= Len(content[out[k].i])
              /\ out[k].val = content[out[k].i][Taken(out[k].i, k)]
        /\ \A g \in Inputs : pos[g] = Taken(g, Len(out))

\* a caller that has stopped pulling part of the way: three inputs, two of
\* which gave their elements on the queue path, and the third now on the
\* fast path
C19_Witness ==
    /\ op = "mix" /\ ~stopped /\ OnSoloPath
    /\ Len(content) = 3
    /\ \A g \in Inputs : raises[g] = "never"
    /\ \A g \in Inputs : Taken(g, Len(out)) >= 1
    /\ Taken(solo_generator, Len(out)) = 3
    /\ Len(content[solo_generator]) = 3

\* the round in which the k-th element was emitted: the n-th element of an
\* input is emitted in round n
Round(k) == Taken(out[k].i, k)

\* the positions of a tuple template whose child has shrinks to offer
Shrinkable == {g \in Inputs : content[g] # <<>>}

\* C20: every round of mix_generators visits the inputs that are still live
\* in the same order, from the last input to the first: the output is
\* ordered by round, and within a round by descending input index; so
\* TupleStrategy.simplify emits in each round one candidate per position in
\* descending index order, and its first candidate changes the highest
\* position whose child simplify is non-empty
C20_LastToFirst ==
    Mixing =>
        /\ \A a, b \in 1..Len(out) :
              a < b => \/ Round(a) < Round(b)
                       \/ Round(a) = Round(b) /\ out[a].i > out[b].i
        /\ (op = "tuple_simplify" /\ out # <<>>) =>
              /\ \A g \in Shrinkable : g <= out[1].i
              /\ out[1].val[out[1].i] # x[out[1].i]

\* a tuple of three whose last position has no shrink: two rounds over
\* positions 2 and 1, in that order
C20_Witness ==
    /\ op = "tuple_simplify" /\ stopped
    /\ Len(x) = 3 /\ Shrinkable = {1, 2}
    /\ Len(out) = 4
    /\ out[1].i = 2 /\ out[2].i = 1 /\ out[3].i = 2 /\ out[4].i = 1

====
